---- MODULE Spec2Model ----
(***************************************************************************)
(* fix_streams.py: parse live_streams.sii, probe every stream URL in a     *)
(* ThreadPoolExecutor, keep the streams whose probe succeeded, sort them   *)
(* by original index and rewrite the file with a corrected count.          *)
(*                                                                         *)
(* The file is a sequence of lines.  A payload is the sequence of its      *)
(* characters, so str.split('|') is computed, not assumed.  The network    *)
(* and the console are the environment: what each of the two requests of   *)
(* a record answers, and whether the progress print of that record raises, *)
(* is drawn in Init (env) and read by the step that performs the call.     *)
(* Runs in which an exception escapes main (open() failing, a print        *)
(* outside the try block raising) end the process and are not modelled.    *)
(***************************************************************************)
EXTENDS Integers, Sequences, FiniteSets, TLC

VARIABLES disk, pc, content, header, streams, footer, env, futures, requests, result,
          yielded, completed, working_streams, failed_streams, reads, writes

vars == <<disk, pc, content, header, streams, footer, env, futures, requests, result,
          yielded, completed, working_streams, failed_streams, reads, writes>>

\* Largest number of stream_data[...] lines in an input file of Spec.
MaxEntries == 2

\* ThreadPoolExecutor(max_workers=10)
max_workers == 10

-----------------------------------------------------------------------------
\* Lines of live_streams.sii

\* any line that is neither a count line, an entry line nor the closer
TextLine == [kind |-> "text"]

\* ' stream_data: <n>\n'
CountLine(n) == [kind |-> "count", n |-> n]

\* ' stream_data[<index>]: "<data>"\n'
EntryLine(index, data) == [kind |-> "entry", index |-> index, data |-> data]

\* the text '}\n\n}' closing the file
Closer == [kind |-> "closer"]

\* Payloads: "a|n|g|l|r|0" and "b|n|g|l|r|0" (6 fields), "a|n|g|l|r" (5 fields),
\* "a|n|g|l|r|0|x" (7 fields).
PayloadA == <<"a", "|", "n", "|", "g", "|", "l", "|", "r", "|", "0">>
PayloadB == <<"b", "|", "n", "|", "g", "|", "l", "|", "r", "|", "0">>
PayloadFive == <<"a", "|", "n", "|", "g", "|", "l", "|", "r">>
PayloadSeven == <<"a", "|", "n", "|", "g", "|", "l", "|", "r", "|", "0", "|", "x">>
Payloads == {PayloadA, PayloadB, PayloadFive, PayloadSeven}

-----------------------------------------------------------------------------
\* parse_sii_file

\* the position of the r-th separator in data; 0 before the first part and
\* Len(data) + 1 after the last
separator(data, sep, r) ==
    LET at == {k \in 1..Len(data) : data[k] = sep}
    IN  IF r = 0 THEN 0
        ELSE IF r > Cardinality(at) THEN Len(data) + 1
        ELSE CHOOSE k \in at : Cardinality({j \in at : j < k}) = r - 1

\* data.split(sep): the parts between the separators, in order
split(data, sep) ==
    [r \in 1..(Cardinality({k \in 1..Len(data) : data[k] = sep}) + 1) |->
        SubSeq(data, separator(data, sep, r - 1) + 1, separator(data, sep, r) - 1)]

\* re.search(r'^(.*?stream_data: \d+\n)', content, re.DOTALL): the shortest
\* prefix ending in a count line, "" when there is none
header_match(text) ==
    IF \E k \in 1..Len(text) : text[k].kind = "count"
    THEN LET k == CHOOSE k \in 1..Len(text) :
                     text[k].kind = "count"
                     /\ \A j \in 1..(k - 1) : text[j].kind # "count"
         IN  SubSeq(text, 1, k)
    ELSE <<>>

\* re.search(r'\n(}\n\n})\s*$', content, re.DOTALL), "}\n\n}" when there is none
footer_match(text) ==
    IF Len(text) > 1 /\ text[Len(text)].kind = "closer"
    THEN <<text[Len(text)]>>
    ELSE <<Closer>>

\* the dict appended for one match whose data has six parts
stream_of(index, data) ==
    LET parts == split(data, "|")
    IN  [index |-> index, url |-> parts[1], name |-> parts[2], genre |-> parts[3],
         language |-> parts[4], bitrate |-> parts[5], flag |-> parts[6],
         original_data |-> data]

\* six_parts with the test written as len(parts) >= 6
at_least_six_parts(data) == Len(split(data, "|")) >= 6

\* len(parts) == 6
six_parts(data) == Len(split(data, "|")) = 6

\* a match of pattern whose data passes 'if len(parts) == 6'
is_record(line) == line.kind = "entry" /\ six_parts(line.data)

\* for match in re.finditer(pattern, content): ... streams.append({...})
find_streams(text) ==
    LET kept == SelectSeq(text, is_record)
    IN  [k \in 1..Len(kept) |-> stream_of(kept[k].index, kept[k].data)]

parse_sii_file(text) ==
    [header |-> header_match(text),
     streams |-> find_streams(text),
     footer |-> footer_match(text)]

-----------------------------------------------------------------------------
\* write_sii_file

\* re.sub(r'stream_data: \d+', f'stream_data: {new_count}', header)
sub_count(hdr, new_count) ==
    [k \in 1..Len(hdr) |->
        IF hdr[k].kind = "count" THEN CountLine(new_count) ELSE hdr[k]]

\* entry_lines writing each stream's own index instead of its position
entry_lines_original_index(working) ==
    [i \in 1..Len(working) |-> EntryLine(working[i].index, working[i].original_data)]

\* f.write(f' stream_data[{i}]: "{stream["original_data"]}"\n') for i, stream in
\* enumerate(working)
entry_lines(working) ==
    [i \in 1..Len(working) |-> EntryLine(i - 1, working[i].original_data)]

write_sii_file(hdr, working, ftr) ==
    sub_count(hdr, Len(working)) \o entry_lines(working) \o ftr

-----------------------------------------------------------------------------
\* test_stream

\* response.status of a call of urlopen that returns (with urllib's default
\* handlers an error status raises HTTPError instead, which is Raises here)
Statuses == {200, 206, 301, 302, 404}

\* what urlopen does: it raises, or it returns a response with a status
Raises == [raised |-> TRUE, status |-> 0]
Response(s) == [raised |-> FALSE, status |-> s]
Outcomes == {Raises} \cup {Response(s) : s \in Statuses}

\* head_accepts with 301 left out of the list
head_accepts_no_301(response) == response.status \in {200, 302}

\* return response.status in [200, 302, 301]
head_accepts(response) == response.status \in {200, 302, 301}

\* return response.status in [200, 206]
get_accepts(response) == response.status \in {200, 206}

-----------------------------------------------------------------------------
\* main

\* working_streams.sort(key=lambda x: x['index']): list.sort is stable, so an
\* element goes after the elements with a smaller index and after the earlier
\* elements with the same index
sorted_position(list, i) ==
    1 + Cardinality({j \in 1..Len(list) :
                        \/ list[j].index < list[i].index
                        \/ list[j].index = list[i].index /\ j < i})

\* sort_by_index that leaves the list in completion order
completion_order(list) == list

sort_by_index(list) ==
    [r \in 1..Len(list) |->
        list[CHOOSE i \in 1..Len(list) : sorted_position(list, i) = r]]

\* the futures whose test_stream call is executing in a worker thread
Running == {p \in 1..Len(futures) : futures[p] \in {"head", "get"}}

\* header, streams, footer = parse_sii_file(filepath)
Parse ==
    /\ pc = "parse"
    /\ content' = disk
    /\ LET parsed == parse_sii_file(disk)
       IN  /\ header' = parsed.header
           /\ streams' = parsed.streams
           /\ footer' = parsed.footer
    /\ reads' = reads + 1
    /\ pc' = "batch"
    /\ UNCHANGED <<disk, env, futures, requests, result, yielded, completed,
                   working_streams, failed_streams, writes>>

\* executor.submit(test_stream, stream['url']) for the next stream
Submit ==
    /\ pc = "batch"
    /\ Len(futures) < Len(streams)
    /\ futures' = Append(futures, "queued")
    /\ requests' = Append(requests, <<>>)
    /\ UNCHANGED <<disk, pc, content, header, streams, footer, env, result, yielded,
                   completed, working_streams, failed_streams, reads, writes>>

\* Start without the limit on the number of worker threads
Start_unbounded(p) ==
    /\ futures[p] = "queued"
    /\ \A q \in 1..(p - 1) : futures[q] # "queued"
    /\ futures' = [futures EXCEPT ![p] = "head"]
    /\ requests' = [requests EXCEPT ![p] = <<"HEAD">>]
    /\ UNCHANGED <<disk, pc, content, header, streams, footer, env, result, yielded,
                   completed, working_streams, failed_streams, reads, writes>>

\* a worker thread takes the oldest queued work item and sends the HEAD request
Start(p) ==
    /\ futures[p] = "queued"
    /\ \A q \in 1..(p - 1) : futures[q] # "queued"
    /\ Cardinality(Running) < max_workers
    /\ futures' = [futures EXCEPT ![p] = "head"]
    /\ requests' = [requests EXCEPT ![p] = <<"HEAD">>]
    /\ UNCHANGED <<disk, pc, content, header, streams, footer, env, result, yielded,
                   completed, working_streams, failed_streams, reads, writes>>

\* the HEAD request of test_stream ends: a response, or the except branch
HeadDone(p) ==
    /\ futures[p] = "head"
    /\ IF env[p].head.raised
       THEN /\ futures' = [futures EXCEPT ![p] = "get"]
            /\ requests' = [requests EXCEPT ![p] = Append(@, "GET")]
            /\ UNCHANGED result
       ELSE /\ futures' = [futures EXCEPT ![p] = "done"]
            /\ result' = result @@ (p :> head_accepts(env[p].head))
            /\ UNCHANGED requests
    /\ UNCHANGED <<disk, pc, content, header, streams, footer, env, yielded, completed,
                   working_streams, failed_streams, reads, writes>>

\* GetDone without the inner except: a GET that raises never completes the future
GetDone_no_except(p) ==
    /\ futures[p] = "get"
    /\ ~env[p].get.raised
    /\ futures' = [futures EXCEPT ![p] = "done"]
    /\ result' = result @@ (p :> get_accepts(env[p].get))
    /\ UNCHANGED <<disk, pc, content, header, streams, footer, env, requests, yielded,
                   completed, working_streams, failed_streams, reads, writes>>

\* the GET request with Range ends: a response, or the inner except branch
GetDone(p) ==
    /\ futures[p] = "get"
    /\ futures' = [futures EXCEPT ![p] = "done"]
    /\ result' = result @@ (p :> (IF env[p].get.raised THEN FALSE
                                  ELSE get_accepts(env[p].get)))
    /\ UNCHANGED <<disk, pc, content, header, streams, footer, env, requests, yielded,
                   completed, working_streams, failed_streams, reads, writes>>

\* Iterate that appends to working_streams whatever the result is
Iterate_all_working(p) ==
    /\ pc = "batch"
    /\ Len(futures) = Len(streams)
    /\ p \in DOMAIN result
    /\ p \notin yielded
    /\ yielded' = yielded \cup {p}
    /\ completed' = completed + 1
    /\ working_streams' = Append(working_streams, streams[p])
    /\ failed_streams' = IF env[p].print_raises THEN Append(failed_streams, streams[p])
                         ELSE failed_streams
    /\ UNCHANGED <<disk, pc, content, header, streams, footer, env, futures, requests,
                   result, reads, writes>>

\* one iteration of 'for future in as_completed(future_to_stream)': the append
\* for the result, then the print; when the print raises, the except branch
\* appends the stream to failed_streams
Iterate(p) ==
    /\ pc = "batch"
    /\ Len(futures) = Len(streams)
    /\ p \in DOMAIN result
    /\ p \notin yielded
    /\ yielded' = yielded \cup {p}
    /\ completed' = completed + 1
    /\ LET stream == streams[p]
           working == IF result[p] THEN Append(working_streams, stream)
                      ELSE working_streams
           failed == IF result[p] THEN failed_streams
                     ELSE Append(failed_streams, stream)
       IN  /\ working_streams' = working
           /\ failed_streams' = IF env[p].print_raises THEN Append(failed, stream)
                                ELSE failed
    /\ UNCHANGED <<disk, pc, content, header, streams, footer, env, futures, requests,
                   result, reads, writes>>

\* Sort reached as soon as every stream is submitted, without waiting for the loop
Sort_early ==
    /\ pc = "batch"
    /\ Len(futures) = Len(streams)
    /\ working_streams' = sort_by_index(working_streams)
    /\ pc' = "write"
    /\ UNCHANGED <<disk, content, header, streams, footer, env, futures, requests, result,
                   yielded, completed, failed_streams, reads, writes>>

\* the loop and the with block end; working_streams.sort(...)
Sort ==
    /\ pc = "batch"
    /\ Len(futures) = Len(streams)
    /\ yielded = 1..Len(streams)
    /\ working_streams' = sort_by_index(working_streams)
    /\ pc' = "write"
    /\ UNCHANGED <<disk, content, header, streams, footer, env, futures, requests, result,
                   yielded, completed, failed_streams, reads, writes>>

\* write_sii_file(filepath, header, working_streams, footer)
Write ==
    /\ pc = "write"
    /\ disk' = write_sii_file(header, working_streams, footer)
    /\ writes' = writes + 1
    /\ pc' = "done"
    /\ UNCHANGED <<content, header, streams, footer, env, futures, requests,
                   result, yielded, completed, working_streams, failed_streams,
                   reads>>

Next ==
    \/ Parse
    \/ Submit
    \/ \E p \in 1..Len(futures) : Start(p)
    \/ \E p \in 1..Len(futures) : HeadDone(p)
    \/ \E p \in 1..Len(futures) : GetDone(p)
    \/ \E p \in 1..Len(futures) : Iterate(p)
    \/ Sort
    \/ Write

-----------------------------------------------------------------------------
\* Input files and environments

RECURSIVE SeqsUpTo(_, _)
SeqsUpTo(S, n) ==
    IF n = 0 THEN {<<>>}
    ELSE LET shorter == SeqsUpTo(S, n - 1)
         IN  shorter \cup {Append(s, x) : s \in {t \in shorter : Len(t) = n - 1}, x \in S}

Indices == 0..(MaxEntries - 1)

EntryLines == {EntryLine(i, d) : i \in Indices, d \in Payloads}

\* A file in the layout of live_streams.sii: a first line, the count line or
\* none, the stream_data[...] entries (any indices, any payloads), the closer or
\* none. The declared count is 7, never the number of entries.
Files ==
    {<<TextLine>> \o cnt \o body \o cl :
        cnt \in {<<>>, <<CountLine(7)>>},
        body \in SeqsUpTo(EntryLines, MaxEntries),
        cl \in {<<>>, <<Closer>>}}

\* the environment of one record: HEAD answers 200 or raises, GET raises, and
\* the print of the record's progress line succeeds or raises
EnvMain ==
    {[head |-> h, get |-> Raises, print_raises |-> r] :
        h \in {Response(200), Raises}, r \in BOOLEAN}

InitWith(file, e) ==
    /\ disk = file
    /\ env = e
    /\ pc = "parse"
    /\ content = <<>>
    /\ header = <<>>
    /\ streams = <<>>
    /\ footer = <<>>
    /\ futures = <<>>
    /\ requests = <<>>
    /\ result = <<>>
    /\ yielded = {}
    /\ completed = 0
    /\ working_streams = <<>>
    /\ failed_streams = <<>>
    /\ reads = 0
    /\ writes = 0

Init ==
    \E file \in Files :
        \E e \in [1..Len(find_streams(file)) -> EnvMain] : InitWith(file, e)

Spec == Init /\ [][Next]_vars

-----------------------------------------------------------------------------
\* One record, every answer the two requests can get

ProbeFile == <<TextLine, CountLine(1), EntryLine(0, PayloadA), Closer>>

EnvProbe ==
    {[head |-> h, get |-> g, print_raises |-> FALSE] : h \in Outcomes, g \in Outcomes}

ProbeInit == \E e \in [1..1 -> EnvProbe] : InitWith(ProbeFile, e)

ProbeSpec == ProbeInit /\ [][Next]_vars

-----------------------------------------------------------------------------
\* One record more than the pool has workers, all the same line; the first
\* server refuses HEAD and answers GET with 206, and the progress print of the
\* first record raises

PoolRecords == max_workers + 1

PoolFile ==
    <<TextLine, CountLine(PoolRecords)>>
    \o [k \in 1..PoolRecords |-> EntryLine(0, PayloadA)]
    \o <<Closer>>

PoolEnv ==
    [p \in 1..PoolRecords |->
        IF p = 1 THEN [head |-> Raises, get |-> Response(206), print_raises |-> TRUE]
        ELSE [head |-> Response(200), get |-> Raises, print_raises |-> FALSE]]

PoolInit == InitWith(PoolFile, PoolEnv)

PoolSpec == PoolInit /\ [][Next]_vars

-----------------------------------------------------------------------------
\* Fair scheduling: as long as the main thread, a worker with queued work or a
\* request in flight (urlopen is called with timeout=5) can take a step, a step
\* is taken. Files with 0..MaxEntries records, and the file with more records
\* than workers.

LiveFile(n) ==
    <<TextLine, CountLine(7)>>
    \o [k \in 1..n |-> EntryLine(n - k, IF k % 2 = 1 THEN PayloadA ELSE PayloadB)]
    \o <<Closer>>

\* the environments of EnvMain in which the console works
EnvLive == {e \in EnvMain : ~e.print_raises}

LiveInit ==
    \E n \in 0..MaxEntries :
        \E e \in [1..n -> EnvLive] : InitWith(LiveFile(n), e)

\* every server of the large file answers HEAD with 200
LivePoolEnv ==
    [p \in 1..PoolRecords |->
        [head |-> Response(200), get |-> Raises, print_raises |-> FALSE]]

LiveSpec ==
    /\ LiveInit \/ InitWith(PoolFile, LivePoolEnv)
    /\ [][Next]_vars
    /\ WF_vars(Next)

-----------------------------------------------------------------------------
\* Properties

IsEntry(line) == line.kind = "entry"

IsCount(line) == line.kind = "count"

\* the stream_data[...] lines of a file, in order
EntriesOf(text) == SelectSeq(text, IsEntry)

\* the number of '|' characters of a payload
Separators(data) == Cardinality({k \in 1..Len(data) : data[k] = "|"})

WellFormed(line) == Separators(line.data) = 5

\* how often x occurs in a list
Occurrences(list, x) == Cardinality({k \in 1..Len(list) : list[k] = x})

\* the records whose check returned true
Reachable == {p \in DOMAIN result : result[p]}

LoopFinished == pc \in {"write", "done"}

\* C1: after a complete run the stream_data lines of the file carry exactly the
\* stored payloads of the records whose check returned true, each as often as
\* there are such records with that payload.
C1_WrittenAreReachable ==
    pc = "done" =>
        LET written == EntriesOf(disk)
            payloads == {written[i].data : i \in 1..Len(written)}
                        \cup {streams[p].original_data : p \in 1..Len(streams)}
        IN  /\ DOMAIN result = 1..Len(streams)
            /\ \A d \in payloads :
                   Cardinality({i \in 1..Len(written) : written[i].data = d})
                   = Cardinality({p \in Reachable : streams[p].original_data = d})

C1_Witness ==
    /\ pc = "done"
    /\ \E p, q \in DOMAIN result :
           /\ result[p] /\ ~result[q]
           /\ streams[p].original_data # streams[q].original_data
    /\ EntriesOf(disk) # <<>>

\* C2: the count token of the written header equals the number of
\* stream_data[...] lines written, for every input file, also one without a
\* 'stream_data: <integer>' line.
C2_CountMatchesLines ==
    pc = "done" =>
        /\ EntriesOf(disk) # <<>> => \E k \in 1..Len(disk) : IsCount(disk[k])
        /\ \A k \in 1..Len(disk) :
               IsCount(disk[k]) => disk[k].n = Len(EntriesOf(disk))

NonDecreasing(list) ==
    \A i, j \in 1..Len(list) : i < j => list[i].index <= list[j].index

StrictlyAscending(list) ==
    \A i, j \in 1..Len(list) : i < j => list[i].index < list[j].index

C4_TestStream ==
    \A p \in 1..Len(futures) :
        /\ futures[p] = "done" <=> p \in DOMAIN result
        /\ p \in DOMAIN result =>
               /\ result[p] \in BOOLEAN
               /\ result[p] <=>
                      \/ ~env[p].head.raised /\ env[p].head.status \in {200, 301, 302}
                      \/ /\ env[p].head.raised
                         /\ ~env[p].get.raised
                         /\ env[p].get.status \in {200, 206}
               /\ requests[p] = IF env[p].head.raised THEN <<"HEAD", "GET">>
                                ELSE <<"HEAD">>

C4_Witness ==
    \E p \in DOMAIN result :
        /\ env[p].head.raised
        /\ env[p].get = Response(206)
        /\ result[p]
        /\ p \in yielded

\* C5: when the loop has finished every parsed record is in exactly one of
\* working_streams and failed_streams, exactly once, and a record whose result
\* handling raised is in failed_streams only.
C5_Partition ==
    LoopFinished =>
        /\ Len(working_streams) + Len(failed_streams) = Len(streams)
        /\ \A p \in 1..Len(streams) :
               /\ Occurrences(working_streams, streams[p])
                  + Occurrences(failed_streams, streams[p])
                  = Occurrences(streams, streams[p])
               /\ (env[p].print_raises /\ Occurrences(streams, streams[p]) = 1)
                  => Occurrences(working_streams, streams[p]) = 0

\* C6: at most max_workers checks execute at the same time; a queued record
\* starts as soon as fewer than max_workers are executing.
C6_PoolBound ==
    /\ Cardinality(Running) <= max_workers
    /\ ((\E p \in 1..Len(futures) : futures[p] = "queued")
        /\ Cardinality(Running) < max_workers)
       => ENABLED (\E p \in 1..Len(futures) : Start(p))

C6_Witness ==
    /\ Cardinality(Running) = max_workers
    /\ \E p \in 1..Len(futures) : futures[p] = "queued"

\* C7: the file is read once, before any check is submitted, and written once,
\* after every check has completed and been classified; no check is in flight
\* while the file is read or written, and the file is not touched in between.
C7_ReadBatchWrite ==
    /\ reads <= 1 /\ writes <= 1
    /\ pc = "parse" => reads = 0 /\ futures = <<>> /\ writes = 0
    /\ pc # "parse" => reads = 1
    /\ (pc # "parse" /\ writes = 0) => disk = content
    /\ writes = 1 <=> pc = "done"
    /\ LoopFinished =>
           /\ Len(futures) = Len(streams)
           /\ Running = {}
           /\ \A p \in 1..Len(futures) : futures[p] = "done"
           /\ yielded = 1..Len(streams)
           /\ completed = Len(streams)

C7_Witness ==
    /\ pc = "done"
    /\ writes = 1
    /\ Len(streams) = MaxEntries
    /\ disk # content

\* C8: a stream_data[...] entry yields a record iff its payload has exactly six
\* '|'-separated fields; any other entry yields no record, is never checked or
\* classified, is not counted and is not in the written file.
C8_SixFields ==
    pc # "parse" =>
        LET entries == EntriesOf(content)
            kept == SelectSeq(entries, WellFormed)
        IN  /\ Len(streams) = Len(kept)
            /\ \A k \in 1..Len(kept) :
                   /\ streams[k].original_data = kept[k].data
                   /\ streams[k].index = kept[k].index
            /\ Len(futures) <= Len(kept)
            /\ completed <= Len(kept)
            /\ \A k \in 1..Len(entries) :
                   ~WellFormed(entries[k]) =>
                       /\ \A i \in 1..Len(working_streams) :
                              working_streams[i].original_data # entries[k].data
                       /\ \A i \in 1..Len(failed_streams) :
                              failed_streams[i].original_data # entries[k].data
                       /\ pc = "done" =>
                              \A i \in 1..Len(disk) :
                                  IsEntry(disk[i]) => disk[i].data # entries[k].data

C8_Witness ==
    /\ pc = "done"
    /\ \E k \in 1..Len(content) :
           IsEntry(content[k]) /\ Separators(content[k].data) \in {4, 6}
    /\ Len(streams) = 1
    /\ Len(EntriesOf(disk)) = 1

\* C9: the written lines are numbered 0, 1, ..., n-1 in order, n the number of
\* surviving records, whatever their original indices were.
C9_Renumbered ==
    pc = "done" =>
        LET written == EntriesOf(disk)
        IN  /\ Len(written) = Len(working_streams)
            /\ \A i \in 1..Len(written) : written[i].index = i - 1

C9_Witness ==
    /\ pc = "done"
    /\ \E i \in 1..Len(working_streams) : working_streams[i].index # i - 1

\* C10: under fair scheduling and terminating checks every parsed record is
\* eventually classified and the file is eventually written.
C10_Completes ==
    <>(/\ pc = "done"
       /\ writes = 1
       /\ yielded = 1..Len(streams)
       /\ Len(working_streams) + Len(failed_streams) >= Len(streams))

C10_Witness ==
    /\ pc = "done"
    /\ writes = 1
    /\ Len(streams) > max_workers
    /\ yielded = 1..Len(streams)

====
